---- MODULE Spec2Model ----
(***************************************************************************)
(* Voxel-grid analyses of src/src/Code.py: flood-fill counting of solid    *)
(* components and of enclosed cavities under the 6/18/26 adjacency models, *)
(* and the two surface-mesh extractions (shared-vertex with face           *)
(* cancellation, and naive per-voxel cubes).                               *)
(***************************************************************************)
EXTENDS Integers, Sequences, FiniteSets, TLC

VARIABLES shape, data, call, mesh, workers, tables

vars == <<shape, data, call, mesh, workers, tables>>

(***************************************************************************)
(* Bounds of the model.                                                    *)
(***************************************************************************)
\* every grid shape (X, Y, Z) with X*Y*Z <= MaxCells is enumerated in full
MaxCells == 8
\* the 3x3x3 blocks are solid except for at most MaxEmpty empty voxels
MaxEmpty == 2
\* the all-empty grids have sides of 1..MaxZeroDim voxels
MaxZeroDim == 3
\* the scan and queue orders are left open on grids of up to MaxOrderSolid solids
MaxOrderSolid == 4
\* NumWorkers analyses share a grid of up to MaxSharedCells voxels
NumWorkers == 3
MaxSharedCells == 3
\* cell values 0..MaxValue on grids of up to MaxValueCells cells
MaxValue == 3
MaxValueCells == 3

(***************************************************************************)
(* Grids: data[<<x, y, z>>], shape = <<X, Y, Z>>, 0-based indices.         *)
(***************************************************************************)
Cells(sh) == {<<x, y, z>> : x \in 0..(sh[1] - 1), y \in 0..(sh[2] - 1), z \in 0..(sh[3] - 1)}

Total(sh) == sh[1] * sh[2] * sh[3]

SmallShapes ==
    {sh \in (1..MaxCells) \X (1..MaxCells) \X (1..MaxCells) : Total(sh) <= MaxCells}

BlockShape == <<3, 3, 3>>

RECURSIVE UpTo(_, _)
\* the subsets of S with at most k elements
UpTo(S, k) ==
    IF k = 0 THEN {{}}
    ELSE LET P == UpTo(S, k - 1) IN P \cup {p \cup {c} : p \in P, c \in S}

SmallGrids ==
    UNION {{[shape |-> sh, data |-> d] : d \in [Cells(sh) -> {0, 1}]} : sh \in SmallShapes}

BlockGrids ==
    {[shape |-> BlockShape,
      data |-> [c \in Cells(BlockShape) |-> IF c \in E THEN 0 ELSE 1]] :
        E \in UpTo(Cells(BlockShape), MaxEmpty)}

Grids == SmallGrids \cup BlockGrids

\* numpy C-order flat view: data.flat[idx]
Unravel(sh, idx) == <<idx \div (sh[2] * sh[3]), (idx \div sh[3]) % sh[2], idx % sh[3]>>

Flat(d, sh, idx) == d[Unravel(sh, idx)]

InBounds(sh, p) ==
    /\ 0 <= p[1] /\ p[1] < sh[1]
    /\ 0 <= p[2] /\ p[2] < sh[2]
    /\ 0 <= p[3] /\ p[3] < sh[3]

(***************************************************************************)
(* Neighbor tables (class attributes of both operator families).           *)
(***************************************************************************)
Abs(n) == IF n < 0 THEN -n ELSE n

\* (x, y, z) for x in [-1,0,1] for y in [-1,0,1] for z in [-1,0,1]
Offsets27 ==
    [n \in 1..27 |-> <<((n - 1) \div 9) - 1, (((n - 1) \div 3) % 3) - 1, ((n - 1) % 3) - 1>>]

\* NEIGHBORS_6 with its last entry, the step back along z, left out
NEIGHBORS_6_NoBack ==
    << <<1, 0, 0>>, <<-1, 0, 0>>, <<0, 1, 0>>, <<0, -1, 0>>, <<0, 0, 1>> >>

NEIGHBORS_6 ==
    << <<1, 0, 0>>, <<-1, 0, 0>>, <<0, 1, 0>>, <<0, -1, 0>>, <<0, 0, 1>>, <<0, 0, -1>> >>

\* NEIGHBORS_18 with the norm test turned around (>= 2 for <= 2)
NEIGHBORS_18_AtLeast2 ==
    SelectSeq(Offsets27,
              LAMBDA o : o # <<0, 0, 0>> /\ Abs(o[1]) + Abs(o[2]) + Abs(o[3]) >= 2)

NEIGHBORS_18 ==
    SelectSeq(Offsets27,
              LAMBDA o : o # <<0, 0, 0>> /\ Abs(o[1]) + Abs(o[2]) + Abs(o[3]) <= 2)

NEIGHBORS_26 == SelectSeq(Offsets27, LAMBDA o : o # <<0, 0, 0>>)

\* the lists of BaseCountBubblesOperator, written out a second time there
Bubbles_NEIGHBORS_6 ==
    << <<1, 0, 0>>, <<-1, 0, 0>>, <<0, 1, 0>>, <<0, -1, 0>>, <<0, 0, 1>>, <<0, 0, -1>> >>

Bubbles_NEIGHBORS_18 ==
    SelectSeq(Offsets27,
              LAMBDA o : o # <<0, 0, 0>> /\ Abs(o[1]) + Abs(o[2]) + Abs(o[3]) <= 2)

Bubbles_NEIGHBORS_26 == SelectSeq(Offsets27, LAMBDA o : o # <<0, 0, 0>>)

ValidConnectivity == {6, 18, 26}

\* the class attributes as created when the two class bodies are executed;
\* they are Python lists, which any code holding a reference could change
ClassTables ==
    [components |-> [n6 |-> NEIGHBORS_6, n18 |-> NEIGHBORS_18, n26 |-> NEIGHBORS_26],
     bubbles |-> [n6 |-> Bubbles_NEIGHBORS_6, n18 |-> Bubbles_NEIGHBORS_18,
                  n26 |-> Bubbles_NEIGHBORS_26]]

\* the if/elif chain selecting the neighbor list; <<>> stands for the raise
SelectNeighbors(connectivity) ==
    IF connectivity = 6 THEN tables.components.n6
    ELSE IF connectivity = 18 THEN tables.components.n18
    ELSE IF connectivity = 26 THEN tables.components.n26
    ELSE <<>>

\* the same chain in find_bubbles, over the lists of its own class
SelectNeighborsBubbles(connectivity) ==
    IF connectivity = 6 THEN tables.bubbles.n6
    ELSE IF connectivity = 18 THEN tables.bubbles.n18
    ELSE IF connectivity = 26 THEN tables.bubbles.n26
    ELSE <<>>

(***************************************************************************)
(* A call of find_connected_components or find_bubbles in progress.        *)
(*   pc        "idle", "scan" (outer loop), "bfs" (inside bfs()), "done",  *)
(*             "error" (ValueError raised)                                 *)
(*   visited   <<>> until allocated                                        *)
(*   ret       <<>> until the call returns n, then <<n>>                   *)
(***************************************************************************)
IdleCall ==
    [fn |-> "none", connectivity |-> 0, pc |-> "idle", visited |-> <<>>,
     queue |-> <<>>, seeds |-> <<>>, idx |-> 0, count |-> 0,
     is_boundary |-> FALSE, ret |-> <<>>]

----------------------------------------------------------------------------
(***************************************************************************)
(* find_connected_components(data, connectivity)                           *)
(***************************************************************************)
\* CCEnter allocating the visited array before it looks at connectivity
CCEnter_AllocFirst(d, sh, connectivity) ==
    IF connectivity \in ValidConnectivity
    THEN [IdleCall EXCEPT !.fn = "find_connected_components",
                          !.connectivity = connectivity,
                          !.pc = "scan",
                          !.visited = [i \in 0..(Total(sh) - 1) |-> FALSE]]
    ELSE [IdleCall EXCEPT !.fn = "find_connected_components",
                          !.connectivity = connectivity,
                          !.pc = "error",
                          !.visited = [i \in 0..(Total(sh) - 1) |-> FALSE]]

\* lines 476-489: select the neighbor list or raise, then allocate visited
CCEnter(d, sh, connectivity) ==
    IF connectivity \in ValidConnectivity
    THEN [IdleCall EXCEPT !.fn = "find_connected_components",
                          !.connectivity = connectivity,
                          !.pc = "scan",
                          !.visited = [i \in 0..(Total(sh) - 1) |-> FALSE]]
    ELSE [IdleCall EXCEPT !.fn = "find_connected_components",
                          !.connectivity = connectivity,
                          !.pc = "error"]

\* NeighborIdx with shape_y where shape_z belongs in the middle term
NeighborIdx_SwapYZ(sh, p) == p[1] * sh[2] * sh[3] + p[2] * sh[2] + p[3]

\* neighbor_idx = nx * shape_y * shape_z + ny * shape_z + nz
NeighborIdx(sh, p) == p[1] * sh[2] * sh[3] + p[2] * sh[3] + p[3]

\* Decode with shape_y where shape_z belongs in the middle coordinate
Decode_SwapYZ(sh, idx) ==
    <<idx \div (sh[2] * sh[3]), (idx % (sh[2] * sh[3])) \div sh[2], idx % sh[3]>>

\* cx, cy, cz decoded from current_idx
Decode(sh, idx) ==
    <<idx \div (sh[2] * sh[3]), (idx % (sh[2] * sh[3])) \div sh[3], idx % sh[3]>>

RECURSIVE CCNeighbors_NoMark(_, _, _, _, _, _, _)
\* CCNeighbors queueing a neighbor without setting visited for it
CCNeighbors_NoMark(d, sh, nbrs, n, cur, visited, queue) ==
    IF n > Len(nbrs) THEN [visited |-> visited, queue |-> queue]
    ELSE LET p == <<cur[1] + nbrs[n][1], cur[2] + nbrs[n][2], cur[3] + nbrs[n][3]>>
             neighbor_idx == NeighborIdx(sh, p)
         IN  IF InBounds(sh, p) /\ d[p] = 1 /\ ~visited[neighbor_idx]
             THEN CCNeighbors_NoMark(d, sh, nbrs, n + 1, cur, visited,
                                     Append(queue, neighbor_idx))
             ELSE CCNeighbors_NoMark(d, sh, nbrs, n + 1, cur, visited, queue)

RECURSIVE CCNeighbors(_, _, _, _, _, _, _)
\* the loop "for dx, dy, dz in neighbors" of bfs(), from the n-th offset on
CCNeighbors(d, sh, nbrs, n, cur, visited, queue) ==
    IF n > Len(nbrs) THEN [visited |-> visited, queue |-> queue]
    ELSE LET p == <<cur[1] + nbrs[n][1], cur[2] + nbrs[n][2], cur[3] + nbrs[n][3]>>
             neighbor_idx == NeighborIdx(sh, p)
         IN  IF InBounds(sh, p) /\ d[p] = 1 /\ ~visited[neighbor_idx]
             THEN CCNeighbors(d, sh, nbrs, n + 1, cur,
                              [visited EXCEPT ![neighbor_idx] = TRUE],
                              Append(queue, neighbor_idx))
             ELSE CCNeighbors(d, sh, nbrs, n + 1, cur, visited, queue)

\* one iteration of "while queue": popleft and visit the neighbors; when the
\* queue runs empty bfs() returns and the outer loop goes on with idx + 1
CCBfsStep(d, sh, c) ==
    LET r == CCNeighbors(d, sh, SelectNeighbors(c.connectivity), 1,
                         Decode(sh, Head(c.queue)), c.visited, Tail(c.queue))
    IN  IF r.queue = <<>>
        THEN [c EXCEPT !.visited = r.visited, !.queue = <<>>,
                       !.pc = "scan", !.idx = c.idx + 1]
        ELSE [c EXCEPT !.visited = r.visited, !.queue = r.queue]

\* the indices idx..total-1 the outer loop would start a component at
CCSeedsFrom(d, sh, c) ==
    {i \in c.idx..(Total(sh) - 1) : Flat(d, sh, i) = 1 /\ ~c.visited[i]}

Min(S) == CHOOSE m \in S : \A n \in S : m <= n

\* "for idx in range(total_voxels)": run the loop to the next unvisited solid
\* voxel, count it and enter bfs(idx); or run it to the end and return
CCScanStep(d, sh, c) ==
    LET S == CCSeedsFrom(d, sh, c)
    IN  IF S = {}
        THEN [c EXCEPT !.pc = "done", !.idx = Total(sh), !.ret = <<c.count>>]
        ELSE [c EXCEPT !.pc = "bfs", !.idx = Min(S), !.count = c.count + 1,
                       !.queue = <<Min(S)>>,
                       !.visited = [c.visited EXCEPT ![Min(S)] = TRUE]]

CCStep(d, sh, c) ==
    IF c.pc = "scan" THEN CCScanStep(d, sh, c) ELSE CCBfsStep(d, sh, c)

(***************************************************************************)
(* The same loops with the order left open: the outer loop may start at    *)
(* any unvisited solid voxel, the fill may take any element of the queue.  *)
(* CCScanStep and CCBfsStep are the choices i = least index and k = 1.     *)
(***************************************************************************)
\* every index the outer loop could start a component at
CCSeedsAny(d, sh, c) ==
    {i \in 0..(Total(sh) - 1) : Flat(d, sh, i) = 1 /\ ~c.visited[i]}

\* lines 509-512 for seed i: count it, mark it, queue it
CCSeedAt(c, i) ==
    [c EXCEPT !.pc = "bfs", !.idx = i, !.count = c.count + 1,
              !.queue = <<i>>,
              !.visited = [c.visited EXCEPT ![i] = TRUE]]

\* the queue without its k-th element
Without(q, k) == SubSeq(q, 1, k - 1) \o SubSeq(q, k + 1, Len(q))

\* one iteration of "while queue" taking the k-th element of the queue
CCPopAt(d, sh, c, k) ==
    LET r == CCNeighbors(d, sh, SelectNeighbors(c.connectivity), 1,
                         Decode(sh, c.queue[k]), c.visited, Without(c.queue, k))
    IN  IF r.queue = <<>>
        THEN [c EXCEPT !.visited = r.visited, !.queue = <<>>, !.pc = "scan"]
        ELSE [c EXCEPT !.visited = r.visited, !.queue = r.queue]

----------------------------------------------------------------------------
(***************************************************************************)
(* find_bubbles(data, connectivity)                                        *)
(***************************************************************************)
RECURSIVE NonzeroFrom(_, _, _)
\* np.nonzero(data == 0) zipped: the empty voxels in row-major order
NonzeroFrom(d, sh, i) ==
    IF i >= Total(sh) THEN <<>>
    ELSE IF Flat(d, sh, i) = 0 THEN <<Unravel(sh, i)>> \o NonzeroFrom(d, sh, i + 1)
    ELSE NonzeroFrom(d, sh, i + 1)

\* lines 624-635 and the evaluation of the for loop's iterable at line 655
BubEnter(d, sh, connectivity) ==
    IF connectivity \in ValidConnectivity
    THEN [IdleCall EXCEPT !.fn = "find_bubbles",
                          !.connectivity = connectivity,
                          !.pc = "scan",
                          !.visited = [p \in Cells(sh) |-> FALSE],
                          !.seeds = NonzeroFrom(d, sh, 0),
                          !.idx = 1]
    ELSE [IdleCall EXCEPT !.fn = "find_bubbles",
                          !.connectivity = connectivity,
                          !.pc = "error"]

RECURSIVE BubNeighbors_ElseMerged(_, _, _, _, _, _, _, _)
\* BubNeighbors with the else branch on the whole test: a neighbor that is
\* solid or visited sets is_boundary as one outside the grid does
BubNeighbors_ElseMerged(d, sh, nbrs, n, cur, visited, queue, is_boundary) ==
    IF n > Len(nbrs)
    THEN [visited |-> visited, queue |-> queue, is_boundary |-> is_boundary]
    ELSE LET p == <<cur[1] + nbrs[n][1], cur[2] + nbrs[n][2], cur[3] + nbrs[n][3]>>
         IN  IF InBounds(sh, p) /\ d[p] = 0 /\ ~visited[p]
             THEN BubNeighbors_ElseMerged(d, sh, nbrs, n + 1, cur,
                                          [visited EXCEPT ![p] = TRUE],
                                          Append(queue, p), is_boundary)
             ELSE BubNeighbors_ElseMerged(d, sh, nbrs, n + 1, cur, visited, queue,
                                          TRUE)

RECURSIVE BubNeighbors(_, _, _, _, _, _, _, _)
\* the loop "for dx, dy, dz in neighbors" of bfs(), from the n-th offset on
BubNeighbors(d, sh, nbrs, n, cur, visited, queue, is_boundary) ==
    IF n > Len(nbrs)
    THEN [visited |-> visited, queue |-> queue, is_boundary |-> is_boundary]
    ELSE LET p == <<cur[1] + nbrs[n][1], cur[2] + nbrs[n][2], cur[3] + nbrs[n][3]>>
         IN  IF InBounds(sh, p)
             THEN IF d[p] = 0 /\ ~visited[p]
                  THEN BubNeighbors(d, sh, nbrs, n + 1, cur,
                                    [visited EXCEPT ![p] = TRUE],
                                    Append(queue, p), is_boundary)
                  ELSE BubNeighbors(d, sh, nbrs, n + 1, cur, visited, queue,
                                    is_boundary)
             ELSE BubNeighbors(d, sh, nbrs, n + 1, cur, visited, queue, TRUE)

\* BubBfsStep counting every finished fill, whatever is_boundary says
BubBfsStep_CountAll(d, sh, c) ==
    LET r == BubNeighbors(d, sh, SelectNeighborsBubbles(c.connectivity), 1,
                          Head(c.queue), c.visited, Tail(c.queue), c.is_boundary)
    IN  IF r.queue = <<>>
        THEN [c EXCEPT !.visited = r.visited, !.queue = <<>>,
                       !.is_boundary = r.is_boundary,
                       !.count = c.count + 1,
                       !.pc = "scan", !.idx = c.idx + 1]
        ELSE [c EXCEPT !.visited = r.visited, !.queue = r.queue,
                       !.is_boundary = r.is_boundary]

\* one iteration of "while queue"; when the queue runs empty bfs() returns
\* not is_boundary and the caller counts the bubble
BubBfsStep(d, sh, c) ==
    LET r == BubNeighbors(d, sh, SelectNeighborsBubbles(c.connectivity), 1,
                          Head(c.queue), c.visited, Tail(c.queue), c.is_boundary)
    IN  IF r.queue = <<>>
        THEN [c EXCEPT !.visited = r.visited, !.queue = <<>>,
                       !.is_boundary = r.is_boundary,
                       !.count = IF r.is_boundary THEN c.count ELSE c.count + 1,
                       !.pc = "scan", !.idx = c.idx + 1]
        ELSE [c EXCEPT !.visited = r.visited, !.queue = r.queue,
                       !.is_boundary = r.is_boundary]

\* the positions in seeds, from idx on, whose voxel is not visited yet
BubSeedsFrom(c) == {i \in c.idx..Len(c.seeds) : ~c.visited[c.seeds[i]]}

\* "for x, y, z in zip(...)": run the loop to the next unvisited empty voxel
\* and enter bfs(x, y, z); or run it to the end and return max(0, bubbles)
BubScanStep(d, sh, c) ==
    LET S == BubSeedsFrom(c)
    IN  IF S = {}
        THEN [c EXCEPT !.pc = "done", !.idx = Len(c.seeds) + 1,
                       !.ret = <<IF c.count > 0 THEN c.count ELSE 0>>]
        ELSE [c EXCEPT !.pc = "bfs", !.idx = Min(S),
                       !.queue = <<c.seeds[Min(S)]>>,
                       !.is_boundary = FALSE,
                       !.visited = [c.visited EXCEPT ![c.seeds[Min(S)]] = TRUE]]

BubStep(d, sh, c) ==
    IF c.pc = "scan" THEN BubScanStep(d, sh, c) ELSE BubBfsStep(d, sh, c)

----------------------------------------------------------------------------
(***************************************************************************)
(* The calls run to completion, as functions of the grid.                  *)
(***************************************************************************)
RECURSIVE RunCC(_, _, _)
RunCC(d, sh, c) == IF c.pc \in {"done", "error"} THEN c ELSE RunCC(d, sh, CCStep(d, sh, c))

find_connected_components(d, sh, connectivity) ==
    RunCC(d, sh, CCEnter(d, sh, connectivity))

RECURSIVE RunBub(_, _, _)
RunBub(d, sh, c) == IF c.pc \in {"done", "error"} THEN c ELSE RunBub(d, sh, BubStep(d, sh, c))

find_bubbles(d, sh, connectivity) ==
    RunBub(d, sh, BubEnter(d, sh, connectivity))

----------------------------------------------------------------------------
(***************************************************************************)
(* Surface-mesh extraction.  Both operators rotate the loaded grid by      *)
(* np.rot90(data, k=1, axes=(1, 2)) and work on the rotated grid.          *)
(*   vertices    Python list, vertices[n + 1] here is vertices[n] there    *)
(*   vertex_map  dict coordinate -> index                                  *)
(*   face_count  dict face -> occurrences; face_keys is its key order      *)
(***************************************************************************)
RotShape(sh) == <<sh[1], sh[3], sh[2]>>

\* rot90 by one quarter turn in the (1, 2) plane: r[i, a, b] = d[i, b, W-1-a]
Rot90(d, sh) == [p \in Cells(RotShape(sh)) |-> d[<<p[1], p[3], sh[3] - 1 - p[2]>>]]

\* padded_data[q] for q in the padded shape: zeros around a copy of the grid
PaddedAt(g, sh, q) ==
    IF /\ 1 <= q[1] /\ q[1] <= sh[1]
       /\ 1 <= q[2] /\ q[2] <= sh[2]
       /\ 1 <= q[3] /\ q[3] <= sh[3]
    THEN g[<<q[1] - 1, q[2] - 1, q[3] - 1>>]
    ELSE 0

\* neighbor_sum[p] of ProcessVoxelDataOperator: six slices of padded_data,
\* added as uint8
SliceNeighborSum(g, sh, p) ==
    ( PaddedAt(g, sh, <<p[1], p[2] + 1, p[3] + 1>>)
    + PaddedAt(g, sh, <<p[1] + 2, p[2] + 1, p[3] + 1>>)
    + PaddedAt(g, sh, <<p[1] + 1, p[2], p[3] + 1>>)
    + PaddedAt(g, sh, <<p[1] + 1, p[2] + 2, p[3] + 1>>)
    + PaddedAt(g, sh, <<p[1] + 1, p[2] + 1, p[3]>>)
    + PaddedAt(g, sh, <<p[1] + 1, p[2] + 1, p[3] + 2>>) ) % 256

\* surface_voxels = (data == 1) & (neighbor_sum < 6)
surface_voxels(g, sh) ==
    [p \in Cells(sh) |-> g[p] = 1 /\ SliceNeighborSum(g, sh, p) < 6]

\* np.roll(padded_data, shift, axis)[q]: the element shift places before q,
\* wrapping around the padded axis
RollAt(g, sh, shift, axis, q) ==
    PaddedAt(g, sh, [q EXCEPT ![axis] = (q[axis] - shift) % (sh[axis] + 2)])

\* RollNeighborSum rolling the grid itself, without the padding layer
RollNeighborSum_Unpadded(g, sh, q) ==
    LET p == <<q[1] - 1, q[2] - 1, q[3] - 1>>
        At(shift, axis) == g[[p EXCEPT ![axis] = (p[axis] - shift) % sh[axis]]]
    IN  At(1, 1) + At(-1, 1) + At(1, 2) + At(-1, 2) + At(1, 3) + At(-1, 3)

\* neighbor_sum[q] of ProcessVoxelDataOperatorComplete, q in the padded shape
RollNeighborSum(g, sh, q) ==
      RollAt(g, sh, 1, 1, q) + RollAt(g, sh, -1, 1, q)
    + RollAt(g, sh, 1, 2, q) + RollAt(g, sh, -1, 2, q)
    + RollAt(g, sh, 1, 3, q) + RollAt(g, sh, -1, 3, q)

\* perimeter_voxels = (data == 1) & (neighbor_sum[1:-1, 1:-1, 1:-1] < 6)
perimeter_voxels(g, sh) ==
    [p \in Cells(sh) |->
        g[p] = 1 /\ RollNeighborSum(g, sh, <<p[1] + 1, p[2] + 1, p[3] + 1>>) < 6]

cube_size == 1

\* the eight corners of the cube at voxel p, in the order of the list literal
cube_vertices(p) ==
    << <<p[1], p[2], p[3]>>,
       <<p[1] + cube_size, p[2], p[3]>>,
       <<p[1] + cube_size, p[2] + cube_size, p[3]>>,
       <<p[1], p[2] + cube_size, p[3]>>,
       <<p[1], p[2], p[3] + cube_size>>,
       <<p[1] + cube_size, p[2], p[3] + cube_size>>,
       <<p[1] + cube_size, p[2] + cube_size, p[3] + cube_size>>,
       <<p[1], p[2] + cube_size, p[3] + cube_size>> >>

\* positions in vertex_indices of base, top, front, right, back, left
ClockwiseFaces ==
    << <<0, 1, 2, 3>>, <<4, 5, 6, 7>>, <<0, 1, 5, 4>>,
       <<1, 2, 6, 5>>, <<2, 3, 7, 6>>, <<3, 0, 4, 7>> >>

CounterClockwiseFaces ==
    << <<1, 0, 3, 2>>, <<5, 4, 7, 6>>, <<1, 0, 4, 5>>,
       <<2, 1, 5, 6>>, <<3, 2, 6, 7>>, <<0, 3, 7, 4>> >>

\* is_clockwise = (i + j + k) % 2 == 0
is_clockwise(p) == (p[1] + p[2] + p[3]) % 2 = 0

\* cube_faces, from the vertex indices of one voxel
cube_faces(p, vertex_indices) ==
    LET T == IF is_clockwise(p) THEN ClockwiseFaces ELSE CounterClockwiseFaces
    IN  [n \in 1..6 |-> [c \in 1..4 |-> vertex_indices[T[n][c] + 1]]]

IdleMesh ==
    [mode |-> "none", pc |-> "idle", data |-> <<>>, shape |-> <<0, 0, 0>>,
     surface |-> <<>>, pos |-> 0, vertices |-> <<>>, vertex_map |-> <<>>,
     face_count |-> <<>>, face_keys |-> <<>>, faces |-> <<>>, faces_list |-> <<>>]

\* the flat positions from pos on whose voxel is marked in the surface array
SurfaceFrom(m) ==
    {n \in m.pos..(Total(m.shape) - 1) : m.surface[Unravel(m.shape, n)]}

RECURSIVE AssignIndices_NoLookup(_, _, _, _, _)
\* AssignIndices appending every corner, seen before or not
AssignIndices_NoLookup(cv, n, vertices, vertex_map, vertex_indices) ==
    IF n > Len(cv)
    THEN [vertices |-> vertices, vertex_map |-> vertex_map,
          vertex_indices |-> vertex_indices]
    ELSE AssignIndices_NoLookup(cv, n + 1, Append(vertices, cv[n]),
                                (cv[n] :> Len(vertices)) @@ vertex_map,
                                Append(vertex_indices, Len(vertices)))

RECURSIVE AssignIndices(_, _, _, _, _)
\* "for v in cube_vertices": look v up in vertex_map, append it when new
AssignIndices(cv, n, vertices, vertex_map, vertex_indices) ==
    IF n > Len(cv)
    THEN [vertices |-> vertices, vertex_map |-> vertex_map,
          vertex_indices |-> vertex_indices]
    ELSE IF cv[n] \in DOMAIN vertex_map
         THEN AssignIndices(cv, n + 1, vertices, vertex_map,
                            Append(vertex_indices, vertex_map[cv[n]]))
         ELSE AssignIndices(cv, n + 1, Append(vertices, cv[n]),
                            (cv[n] :> Len(vertices)) @@ vertex_map,
                            Append(vertex_indices, Len(vertices)))

RECURSIVE CountFaces(_, _, _, _)
\* "for face in cube_faces": face_count[face] += 1 or = 1
CountFaces(cf, n, face_count, face_keys) ==
    IF n > Len(cf) THEN [face_count |-> face_count, face_keys |-> face_keys]
    ELSE IF cf[n] \in DOMAIN face_count
         THEN CountFaces(cf, n + 1,
                         [face_count EXCEPT ![cf[n]] = face_count[cf[n]] + 1],
                         face_keys)
         ELSE CountFaces(cf, n + 1, (cf[n] :> 1) @@ face_count,
                         Append(face_keys, cf[n]))

\* lines 136-165 of ProcessVoxelDataOperator.execute
DedupEnter(d, sh) ==
    [IdleMesh EXCEPT !.mode = "dedup", !.pc = "loop",
                     !.data = Rot90(d, sh), !.shape = RotShape(sh),
                     !.surface = surface_voxels(Rot90(d, sh), RotShape(sh))]

\* the body of the three nested loops for one surface voxel
DedupVoxel(m, p) ==
    LET a == AssignIndices(cube_vertices(p), 1, m.vertices, m.vertex_map, <<>>)
        f == CountFaces(cube_faces(p, a.vertex_indices), 1, m.face_count, m.face_keys)
    IN  [m EXCEPT !.vertices = a.vertices, !.vertex_map = a.vertex_map,
                  !.face_count = f.face_count, !.face_keys = f.face_keys]

\* faces_list = [face for face, count in face_count.items() if count == 1]
FacesList(face_count, face_keys) ==
    SelectSeq(face_keys, LAMBDA f : face_count[f] = 1)

\* run the loops to the next surface voxel and process it, or to their end
DedupStep(m) ==
    LET S == SurfaceFrom(m)
    IN  IF S = {}
        THEN [m EXCEPT !.pc = "done", !.pos = Total(m.shape),
                       !.faces_list = FacesList(m.face_count, m.face_keys)]
        ELSE [DedupVoxel(m, Unravel(m.shape, Min(S))) EXCEPT !.pos = Min(S) + 1]

\* lines 340-357 of ProcessVoxelDataOperatorComplete.execute
NaiveEnter(d, sh) ==
    [IdleMesh EXCEPT !.mode = "naive", !.pc = "loop",
                     !.data = Rot90(d, sh), !.shape = RotShape(sh),
                     !.surface = perimeter_voxels(Rot90(d, sh), RotShape(sh))]

\* StartIndex taken as if before vertices.extend(cube_vertices)
StartIndex_NoOffset(vertices) == Len(vertices)

\* start_index = len(vertices) - 8, taken after vertices.extend(cube_vertices)
StartIndex(vertices) == Len(vertices) - 8

\* the six quads appended by faces.extend([...])
NaiveFaces(s) ==
    << <<s, s + 1, s + 2, s + 3>>, <<s + 4, s + 5, s + 6, s + 7>>,
       <<s, s + 1, s + 5, s + 4>>, <<s + 1, s + 2, s + 6, s + 5>>,
       <<s + 2, s + 3, s + 7, s + 6>>, <<s + 3, s, s + 4, s + 7>> >>

NaiveVoxel(m, p) ==
    LET vs == m.vertices \o cube_vertices(p)
    IN  [m EXCEPT !.vertices = vs,
                  !.faces = m.faces \o NaiveFaces(StartIndex(vs))]

NaiveStep(m) ==
    LET S == SurfaceFrom(m)
    IN  IF S = {}
        THEN [m EXCEPT !.pc = "done", !.pos = Total(m.shape)]
        ELSE [NaiveVoxel(m, Unravel(m.shape, Min(S))) EXCEPT !.pos = Min(S) + 1]

----------------------------------------------------------------------------
(***************************************************************************)
(* State machine.                                                          *)
(***************************************************************************)
\* the connectivity arguments tried: the three models and three invalid ones
Connectivities == ValidConnectivity \cup {0, 7, 27}

Init ==
    /\ \E g \in Grids : shape = g.shape /\ data = g.data
    /\ call = IdleCall
    /\ mesh = IdleMesh
    /\ workers = <<>>
    /\ tables = ClassTables

Idle == call.pc = "idle" /\ mesh.pc = "idle"

CallComponents ==
    /\ Idle
    /\ \E m \in Connectivities : call' = CCEnter(data, shape, m)
    /\ UNCHANGED <<shape, data, mesh, workers, tables>>

\* StepComponents erasing the voxels it has visited from the grid
StepComponents_InPlace ==
    /\ call.fn = "find_connected_components"
    /\ call.pc \in {"scan", "bfs"}
    /\ call' = CCStep(data, shape, call)
    /\ data' = [p \in DOMAIN data |->
                    IF call'.visited[NeighborIdx(shape, p)] THEN 0 ELSE data[p]]
    /\ UNCHANGED <<shape, mesh, workers, tables>>

StepComponents ==
    /\ call.fn = "find_connected_components"
    /\ call.pc \in {"scan", "bfs"}
    /\ call' = CCStep(data, shape, call)
    /\ UNCHANGED <<shape, data, mesh, workers, tables>>

CallBubbles ==
    /\ Idle
    /\ \E m \in Connectivities : call' = BubEnter(data, shape, m)
    /\ UNCHANGED <<shape, data, mesh, workers, tables>>

\* StepBubbles reversing in place the list its local name neighbors refers to
StepBubbles_ReversesList ==
    /\ call.fn = "find_bubbles"
    /\ call.pc \in {"scan", "bfs"}
    /\ call' = BubStep(data, shape, call)
    /\ LET Reversed(t) == [n \in 1..Len(t) |-> t[Len(t) + 1 - n]]
       IN  tables' =
               IF call.connectivity = 6
               THEN [tables EXCEPT !.bubbles.n6 = Reversed(@)]
               ELSE IF call.connectivity = 18
                    THEN [tables EXCEPT !.bubbles.n18 = Reversed(@)]
                    ELSE [tables EXCEPT !.bubbles.n26 = Reversed(@)]
    /\ UNCHANGED <<shape, data, mesh, workers>>

StepBubbles ==
    /\ call.fn = "find_bubbles"
    /\ call.pc \in {"scan", "bfs"}
    /\ call' = BubStep(data, shape, call)
    /\ UNCHANGED <<shape, data, mesh, workers, tables>>

\* the caller takes the result (or the exception) and the frame is gone
Return ==
    /\ call.pc \in {"done", "error"}
    /\ call' = IdleCall
    /\ UNCHANGED <<shape, data, mesh, workers, tables>>

\* ProcessVoxelDataOperator.execute, up to the loops
StartDedup ==
    /\ Idle
    /\ mesh' = DedupEnter(data, shape)
    /\ UNCHANGED <<shape, data, call, workers, tables>>

StepDedup ==
    /\ mesh.mode = "dedup"
    /\ mesh.pc = "loop"
    /\ mesh' = DedupStep(mesh)
    /\ UNCHANGED <<shape, data, call, workers, tables>>

\* ProcessVoxelDataOperatorComplete.execute, up to the loops
StartNaive ==
    /\ Idle
    /\ mesh' = NaiveEnter(data, shape)
    /\ UNCHANGED <<shape, data, call, workers, tables>>

StepNaive ==
    /\ mesh.mode = "naive"
    /\ mesh.pc = "loop"
    /\ mesh' = NaiveStep(mesh)
    /\ UNCHANGED <<shape, data, call, workers, tables>>

\* the mesh is handed to Blender; the next operator run starts from scratch
HandOver ==
    /\ mesh.pc = "done"
    /\ mesh' = IdleMesh
    /\ UNCHANGED <<shape, data, call, workers, tables>>

\* the two counting functions
FillNext ==
    \/ CallComponents
    \/ StepComponents
    \/ CallBubbles
    \/ StepBubbles
    \/ Return

\* the two mesh operators
MeshNext ==
    \/ StartDedup
    \/ StepDedup
    \/ StartNaive
    \/ StepNaive
    \/ HandOver

Next == FillNext \/ MeshNext

Spec == Init /\ [][Next]_vars

\* the panel used for counting only
FillSpec == Init /\ [][FillNext]_vars

\* the panel used for meshing only
MeshSpec == Init /\ [][MeshNext]_vars

\* the Deduplicated operator run again and again
DedupNext ==
    \/ StartDedup
    \/ StepDedup
    \/ HandOver

DedupSpec == Init /\ [][DedupNext]_vars

\* the grids without a solid voxel, of every shape with sides 1..MaxZeroDim
ZeroGrids ==
    {[shape |-> sh, data |-> [c \in Cells(sh) |-> 0]] :
        sh \in (1..MaxZeroDim) \X (1..MaxZeroDim) \X (1..MaxZeroDim)}

ZeroInit ==
    /\ \E g \in ZeroGrids : shape = g.shape /\ data = g.data
    /\ call = IdleCall
    /\ mesh = IdleMesh
    /\ workers = <<>>
    /\ tables = ClassTables

\* counting on an empty volume
ZeroSpec == ZeroInit /\ [][FillNext]_vars

\* the grids of one value, all 0 or all 1, of every shape with sides
\* 1..MaxZeroDim: the longest fills and queues
UniformGrids ==
    {[shape |-> sh, data |-> [c \in Cells(sh) |-> v]] :
        sh \in (1..MaxZeroDim) \X (1..MaxZeroDim) \X (1..MaxZeroDim), v \in {0, 1}}

LoopInit ==
    /\ \E g \in SmallGrids \cup UniformGrids : shape = g.shape /\ data = g.data
    /\ call = IdleCall
    /\ mesh = IdleMesh
    /\ workers = <<>>
    /\ tables = ClassTables

\* counting on every small grid and on the uniform blocks
LoopSpec == LoopInit /\ [][FillNext]_vars

\* the small grids with at most MaxOrderSolid solid voxels
OrderGrids ==
    {g \in SmallGrids :
        Cardinality({p \in Cells(g.shape) : g.data[p] = 1}) <= MaxOrderSolid}

OrderInit ==
    /\ \E g \in OrderGrids : shape = g.shape /\ data = g.data
    /\ call = IdleCall
    /\ mesh = IdleMesh
    /\ workers = <<>>
    /\ tables = ClassTables

\* a step of find_connected_components with the scan and queue order open
StepAnyOrder ==
    /\ call.fn = "find_connected_components"
    /\ \/ /\ call.pc = "scan"
          /\ CCSeedsAny(data, shape, call) = {}
          /\ call' = [call EXCEPT !.pc = "done", !.ret = <<call.count>>]
       \/ /\ call.pc = "scan"
          /\ \E i \in CCSeedsAny(data, shape, call) : call' = CCSeedAt(call, i)
       \/ /\ call.pc = "bfs"
          /\ \E k \in 1..Len(call.queue) : call' = CCPopAt(data, shape, call, k)
    /\ UNCHANGED <<shape, data, mesh, workers, tables>>

OrderNext ==
    \/ CallComponents
    \/ StepAnyOrder
    \/ Return

\* find_connected_components with any scan order and any queue discipline
OrderSpec == OrderInit /\ [][OrderNext]_vars

\* the analyses run side by side on one grid: worker w runs Jobs[w]
Jobs ==
    << [fn |-> "find_connected_components", connectivity |-> 6],
       [fn |-> "find_bubbles", connectivity |-> 26],
       [fn |-> "find_connected_components", connectivity |-> 26],
       [fn |-> "find_bubbles", connectivity |-> 6],
       [fn |-> "find_connected_components", connectivity |-> 18],
       [fn |-> "find_bubbles", connectivity |-> 18] >>

JobOf(w) == Jobs[((w - 1) % Len(Jobs)) + 1]

\* the grids of up to MaxSharedCells voxels
SharedGrids == {g \in SmallGrids : Total(g.shape) <= MaxSharedCells}

SharedInit ==
    /\ \E g \in SharedGrids : shape = g.shape /\ data = g.data
    /\ call = IdleCall
    /\ mesh = IdleMesh
    /\ workers = [w \in 1..NumWorkers |-> IdleCall]
    /\ tables = ClassTables

\* worker w enters its function: own visited array, own queue, own counter
WorkerCall(w) ==
    /\ workers[w].pc = "idle"
    /\ workers' = [workers EXCEPT ![w] =
                      IF JobOf(w).fn = "find_connected_components"
                      THEN CCEnter(data, shape, JobOf(w).connectivity)
                      ELSE BubEnter(data, shape, JobOf(w).connectivity)]
    /\ UNCHANGED <<shape, data, call, mesh, tables>>

\* WorkerStep erasing from the shared grid the voxels the worker has visited
WorkerStep_InPlace(w) ==
    /\ workers[w].pc \in {"scan", "bfs"}
    /\ workers' = [workers EXCEPT ![w] =
                      IF workers[w].fn = "find_connected_components"
                      THEN CCStep(data, shape, workers[w])
                      ELSE BubStep(data, shape, workers[w])]
    /\ data' = [p \in DOMAIN data |->
                    IF workers[w].fn = "find_connected_components"
                    THEN IF workers'[w].visited[NeighborIdx(shape, p)] THEN 0 ELSE data[p]
                    ELSE IF workers'[w].visited[p] THEN 1 ELSE data[p]]
    /\ UNCHANGED <<shape, call, mesh, tables>>

\* worker w takes one step of its loops, reading the shared grid
WorkerStep(w) ==
    /\ workers[w].pc \in {"scan", "bfs"}
    /\ workers' = [workers EXCEPT ![w] =
                      IF workers[w].fn = "find_connected_components"
                      THEN CCStep(data, shape, workers[w])
                      ELSE BubStep(data, shape, workers[w])]
    /\ UNCHANGED <<shape, data, call, mesh, tables>>

\* the result of worker w is taken; the worker may be started again
WorkerReturn(w) ==
    /\ workers[w].pc = "done"
    /\ workers' = [workers EXCEPT ![w] = IdleCall]
    /\ UNCHANGED <<shape, data, call, mesh, tables>>

SharedNext ==
    \E w \in DOMAIN workers : WorkerCall(w) \/ WorkerStep(w) \/ WorkerReturn(w)

\* NumWorkers analyses interleaved step by step on one shared grid
SharedSpec == SharedInit /\ [][SharedNext]_vars

\* grids loaded from a file whose cells are not all 0 or 1: every grid of up
\* to MaxValueCells cells with values 0..MaxValue, and the 3x3x3 blocks of 1s
\* whose centre cell holds any of these values
ValueGrids ==
    UNION {{[shape |-> sh, data |-> d] : d \in [Cells(sh) -> 0..MaxValue]} :
              sh \in {t \in SmallShapes : Total(t) <= MaxValueCells}}
    \cup {[shape |-> BlockShape,
           data |-> [c \in Cells(BlockShape) |-> IF c = <<1, 1, 1>> THEN v ELSE 1]] :
              v \in 0..MaxValue}

ValueInit ==
    /\ \E g \in ValueGrids : shape = g.shape /\ data = g.data
    /\ call = IdleCall
    /\ mesh = IdleMesh
    /\ workers = <<>>
    /\ tables = ClassTables

\* the panel used on such a file
ValueSpec == ValueInit /\ [][Next]_vars

----------------------------------------------------------------------------
(***************************************************************************)
(* What the results are measured against: adjacency, connected regions and *)
(* exposure, stated directly on the grid.                                  *)
(***************************************************************************)
Norm1(o) == Abs(o[1]) + Abs(o[2]) + Abs(o[3])

Cube3 == {-1, 0, 1} \X {-1, 0, 1} \X {-1, 0, 1}

\* face steps; face and edge steps; face, edge and corner steps
FaceOffsets == {o \in Cube3 : Norm1(o) = 1}

EdgeOffsets == {o \in Cube3 : Norm1(o) \in {1, 2}}

CornerOffsets == {o \in Cube3 : Norm1(o) >= 1}

ModelOffsets(m) ==
    IF m = 6 THEN FaceOffsets ELSE IF m = 18 THEN EdgeOffsets ELSE CornerOffsets

Plus(p, o) == <<p[1] + o[1], p[2] + o[2], p[3] + o[3]>>

Voxels(d, sh, val) == {p \in Cells(sh) : d[p] = val}

RECURSIVE Region(_, _, _)
\* the voxels of V reachable from S by steps along Off that stay inside V
Region(V, Off, S) ==
    LET T == S \cup ({Plus(p, o) : p \in S, o \in Off} \cap V)
    IN  IF T = S THEN S ELSE Region(V, Off, T)

RECURSIVE Regions(_, _)
\* the maximal connected subsets of V
Regions(V, Off) ==
    IF V = {} THEN {}
    ELSE LET R == Region(V, Off, {CHOOSE v \in V : TRUE})
         IN  {R} \cup Regions(V \ R, Off)

\* no voxel of R has a neighbor position outside the grid
Enclosed(sh, Off, R) == \A p \in R : \A o \in Off : InBounds(sh, Plus(p, o))

Solid(g, sh, p) == InBounds(sh, p) /\ g[p] = 1

\* the face directions of voxel p whose neighbor is empty or outside the grid
OpenSides(g, sh, p) == {o \in ModelOffsets(6) : ~Solid(g, sh, Plus(p, o))}

Exposed(g, sh, p) == g[p] = 1 /\ \E o \in FaceOffsets : ~Solid(g, sh, Plus(p, o))

ComponentsDone == call.fn = "find_connected_components" /\ call.pc = "done"

BubblesDone == call.fn = "find_bubbles" /\ call.pc = "done"

DedupDone == mesh.mode = "dedup" /\ mesh.pc = "done"

NaiveDone == mesh.mode = "naive" /\ mesh.pc = "done"

----------------------------------------------------------------------------
\* C1: find_connected_components returns the number of maximal sets of solid
\* voxels connected through in-bounds steps of the model; 0 without solids.
ComponentCountExact ==
    ComponentsDone =>
        call.ret = <<Cardinality(Regions(Voxels(data, shape, 1),
                                         ModelOffsets(call.connectivity)))>>

\* two voxels touching only at a corner, counted as two under model 18
ComponentCountExactWitness ==
    /\ ComponentsDone
    /\ call.connectivity = 18
    /\ call.ret = <<2>>
    /\ shape = <<2, 2, 2>>
    /\ Voxels(data, shape, 1) = {<<0, 0, 0>>, <<1, 1, 1>>}

\* C2: find_bubbles returns the number of maximal regions of empty voxels
\* none of whose voxels has a neighbor position outside the grid.
BubbleCountExact ==
    BubblesDone =>
        LET Off == ModelOffsets(call.connectivity)
        IN  call.ret = <<Cardinality({R \in Regions(Voxels(data, shape, 0), Off) :
                                        Enclosed(shape, Off, R)})>>

\* the centre cavity is counted, the empty corner voxel is not
BubbleCountExactWitness ==
    /\ BubblesDone
    /\ call.connectivity = 18
    /\ call.ret = <<1>>
    /\ Voxels(data, shape, 0) = {<<0, 0, 0>>, <<1, 1, 1>>}

----------------------------------------------------------------------------
\* the corners of face f, a tuple of indices into vertices
FaceCoords(vertices, f) == {vertices[f[c] + 1] : c \in 1..4}

\* the corner of the square Q with the least coordinates
LowCorner(Q) ==
    <<Min({q[1] : q \in Q}), Min({q[2] : q \in Q}), Min({q[3] : q \in Q})>>

\* the axis the square Q is perpendicular to
FaceAxis(Q) == CHOOSE a \in 1..3 : \A q \in Q : q[a] = LowCorner(Q)[a]

\* the two voxel positions the unit square Q lies between
FaceSides(Q) ==
    {LowCorner(Q), [LowCorner(Q) EXCEPT ![FaceAxis(Q)] = @ - 1]}

\* the corners of the unit cube at voxel p
Corners(p) == {Plus(p, <<dx, dy, dz>>) : dx \in {0, 1}, dy \in {0, 1}, dz \in {0, 1}}

\* the unit square between voxel p and its neighbor p + o, o a unit offset
SharedSquare(p, o) == Corners(p) \cap Corners(Plus(p, o))

\* C3: in Deduplicated mode every face of faces_list borders exactly one solid
\* voxel, with an empty voxel or the outside of the grid on its other side.
DedupFacesExterior ==
    DedupDone =>
        \A n \in 1..Len(mesh.faces_list) :
            Cardinality({p \in FaceSides(FaceCoords(mesh.vertices, mesh.faces_list[n])) :
                            Solid(mesh.data, mesh.shape, p)}) = 1

\* C4: in Deduplicated mode the number of faces of faces_list is the sum over
\* the surface voxels of their face directions without a solid neighbor.
DedupFaceCount ==
    DedupDone =>
        Len(mesh.faces_list) =
            Cardinality({po \in Cells(mesh.shape) \X ModelOffsets(6) :
                            /\ Exposed(mesh.data, mesh.shape, po[1])
                            /\ po[2] \in OpenSides(mesh.data, mesh.shape, po[1])})

\* C5: for an N x N x N grid of all 1s the Deduplicated-mode mesh has exactly
\* 6*N*N faces, all on the outer boundary of the block.
SolidBlockFaces ==
    (DedupDone /\ mesh.shape[1] = mesh.shape[2] /\ mesh.shape[2] = mesh.shape[3]
        /\ Voxels(mesh.data, mesh.shape, 0) = {}) =>
        /\ Len(mesh.faces_list) = 6 * mesh.shape[1] * mesh.shape[1]
        /\ \A n \in 1..Len(mesh.faces_list) :
              \E p \in FaceSides(FaceCoords(mesh.vertices, mesh.faces_list[n])) :
                  ~InBounds(mesh.shape, p)

----------------------------------------------------------------------------
\* the counts the two functions return for model m on the current grid
ComponentsOf(m) == find_connected_components(data, shape, m).ret[1]

BubblesOf(m) == find_bubbles(data, shape, m).ret[1]

\* the next looser model
Looser(m) == IF m = 6 THEN 18 ELSE 26

\* C6: on every grid the component count under model 6 is >= the one under
\* 18, which is >= the one under 26; likewise for the bubble count.  Stated
\* where a call under model 6 or 18 returns: its count is >= the count the
\* function gives for the same grid under the next looser model.
CountsMonotone ==
    /\ (ComponentsDone /\ call.connectivity # 26) =>
          call.ret[1] >= ComponentsOf(Looser(call.connectivity))
    /\ (BubblesDone /\ call.connectivity # 26) =>
          call.ret[1] >= BubblesOf(Looser(call.connectivity))

\* a cavity under model 18 that model 26 joins to an empty corner
CountsMonotoneWitness ==
    /\ BubblesDone
    /\ call.connectivity = 18
    /\ call.ret = <<1>>
    /\ BubblesOf(26) = 0

\* C7: a connectivity other than 6, 18, 26 ends both functions in the error,
\* with no visited array allocated, no voxel scanned or visited, no count.
InvalidModelRejectedFirst ==
    (call.fn # "none" /\ call.connectivity \notin {6, 18, 26}) =>
        /\ call.pc = "error"
        /\ DOMAIN call.visited = {}
        /\ call.queue = <<>>
        /\ call.seeds = <<>>
        /\ call.idx = 0
        /\ call.count = 0
        /\ call.ret = <<>>

InvalidModelRejectedFirstWitness ==
    /\ call.fn = "find_connected_components"
    /\ call.connectivity = 7
    /\ call.pc = "error"
    /\ Voxels(data, shape, 1) # {}

\* C8: no step of find_connected_components, of find_bubbles or of the mesh
\* loops changes a cell of the grid it works on.
GridNeverWritten ==
    [][/\ data' = data
       /\ shape' = shape
       /\ mesh.pc = "loop" => (mesh'.data = mesh.data /\ mesh'.shape = mesh.shape)]_vars

\* a flood fill that visited every voxel of a solid block has returned
GridNeverWrittenWitness ==
    /\ ComponentsDone
    /\ call.ret = <<1>>
    /\ shape = <<2, 2, 2>>
    /\ \A i \in 0..7 : call.visited[i]

\* C9: a voxel is marked as a surface voxel iff it is solid and one of its six
\* face neighbors is empty or outside the grid; the slicing and the np.roll
\* computations mark the same voxels.  Looked at when the array has just been
\* computed, before the first voxel is processed, and when the loops are over.
SurfaceMarksExposed ==
    (mesh.pc = "done" \/ (mesh.pc = "loop" /\ mesh.pos = 0)) =>
        /\ \A p \in Cells(mesh.shape) :
              mesh.surface[p] = Exposed(mesh.data, mesh.shape, p)
        /\ surface_voxels(mesh.data, mesh.shape) = perimeter_voxels(mesh.data, mesh.shape)

\* a solid 3x3x3 block: the corner is marked, the centre is not
SurfaceMarksExposedWitness ==
    /\ NaiveDone
    /\ mesh.shape = <<3, 3, 3>>
    /\ mesh.data[<<1, 1, 1>>] = 1
    /\ ~mesh.surface[<<1, 1, 1>>]
    /\ mesh.surface[<<0, 0, 0>>]

\* C10: in Naive mode S surface voxels give 8*S vertices and 6*S faces, each
\* face uses only the 8 vertices of its own voxel, and a face shared by two
\* adjacent surface voxels is there twice, once among the faces of each.
NaiveKeepsEverything ==
    NaiveDone =>
        LET S == {p \in Cells(mesh.shape) : Exposed(mesh.data, mesh.shape, p)}
        IN  /\ Len(mesh.vertices) = 8 * Cardinality(S)
            /\ Len(mesh.faces) = 6 * Cardinality(S)
            /\ \A n \in 1..Len(mesh.faces) : \A c \in 1..4 :
                  /\ mesh.faces[n][c] >= 8 * ((n - 1) \div 6)
                  /\ mesh.faces[n][c] <= 8 * ((n - 1) \div 6) + 7
            /\ \A v \in 1..Cardinality(S) :
                  /\ mesh.vertices[8 * (v - 1) + 1] \in S
                  /\ \A c \in 1..8 :
                        mesh.vertices[8 * (v - 1) + c] =
                            cube_vertices(mesh.vertices[8 * (v - 1) + 1])[c]
            /\ \A p \in S : \A o \in ModelOffsets(6) :
                  Plus(p, o) \in S =>
                      LET sq == SharedSquare(p, o)
                          \* the faces appended for surface voxel r
                          Own(r) ==
                              LET v == CHOOSE v \in 1..Cardinality(S) :
                                          mesh.vertices[8 * (v - 1) + 1] = r
                              IN  {6 * (v - 1) + f : f \in 1..6}
                      IN  /\ \E n \in Own(p) :
                                FaceCoords(mesh.vertices, mesh.faces[n]) = sq
                          /\ \E n \in Own(Plus(p, o)) :
                                FaceCoords(mesh.vertices, mesh.faces[n]) = sq

\* two adjacent surface voxels: 16 vertices, 12 faces, the shared face twice
NaiveKeepsEverythingWitness ==
    /\ NaiveDone
    /\ mesh.shape = <<1, 1, 2>>
    /\ Len(mesh.vertices) = 16
    /\ Len(mesh.faces) = 12

----------------------------------------------------------------------------
\* C11: in Deduplicated mode, after any number of processed voxels, no two
\* entries of vertices are equal, vertex_map has exactly the coordinates of
\* vertices as keys and maps each to its position in vertices, and every index
\* of every face counted or listed is a position of vertices.
DedupIndexing ==
    mesh.mode = "dedup" =>
        LET n == Len(mesh.vertices)
            seen == {mesh.vertices[a] : a \in 1..n}
        IN  /\ Cardinality(seen) = n
            /\ DOMAIN mesh.vertex_map = seen
            /\ \A v \in seen :
                  /\ mesh.vertex_map[v] \in 0..(n - 1)
                  /\ mesh.vertices[mesh.vertex_map[v] + 1] = v
            /\ \A f \in 1..Len(mesh.face_keys) : \A c \in 1..4 :
                  mesh.face_keys[f][c] \in 0..(n - 1)
            /\ DOMAIN mesh.face_count = {mesh.face_keys[f] : f \in 1..Len(mesh.face_keys)}
            /\ \A f \in 1..Len(mesh.faces_list) : \A c \in 1..4 :
                  mesh.faces_list[f][c] \in 0..(n - 1)

\* the second of two adjacent voxels has been processed: four of its corners
\* were found in vertex_map, four were appended
DedupIndexingWitness ==
    /\ mesh.mode = "dedup"
    /\ mesh.pc = "loop"
    /\ mesh.shape = <<1, 1, 2>>
    /\ mesh.pos = 2
    /\ Len(mesh.vertices) = 12
    /\ Len(mesh.face_keys) = 12

----------------------------------------------------------------------------
\* C12: on the 3x3x3 grid of 1s whose only 0 is the centre voxel (1, 1, 1),
\* find_bubbles returns 1 under each of the models 6, 18 and 26.
CentreCavityIsOneBubble ==
    (BubblesDone /\ shape = BlockShape /\ Voxels(data, shape, 0) = {<<1, 1, 1>>}) =>
        /\ call.ret = <<1>>
        /\ \A m \in ValidConnectivity : BubblesOf(m) = 1

\* the call under model 26, whose fill of the centre looked at all 26 neighbors
CentreCavityIsOneBubbleWitness ==
    /\ BubblesDone
    /\ call.connectivity = 26
    /\ shape = BlockShape
    /\ Voxels(data, shape, 0) = {<<1, 1, 1>>}
    /\ call.visited[<<1, 1, 1>>]
    /\ call.ret = <<1>>

----------------------------------------------------------------------------
\* C13: on a grid of 0s only, whatever its shape, find_bubbles returns 0 under
\* every model: the one empty region reaches the boundary of the grid.
AllEmptyHasNoBubble ==
    (BubblesDone /\ Voxels(data, shape, 1) = {}) =>
        /\ call.ret = <<0>>
        /\ call.count = 0
        /\ \A p \in Cells(shape) : call.visited[p]

\* the 3x3x3 grid of 0s: one fill from (0, 0, 0) visited all 27 voxels
AllEmptyHasNoBubbleWitness ==
    /\ BubblesDone
    /\ shape = <<3, 3, 3>>
    /\ Voxels(data, shape, 0) = Cells(shape)
    /\ call.connectivity = 6
    /\ call.idx = Len(call.seeds) + 1
    /\ call.ret = <<0>>

----------------------------------------------------------------------------
\* the grid with every cell other than 1 set to 0
Binarised(d) == [p \in DOMAIN d |-> IF d[p] = 1 THEN 1 ELSE 0]

\* find_bubbles(data) is find_bubbles of the binarised grid
NonBinaryBubbles ==
    BubblesDone =>
        call.ret = find_bubbles(Binarised(data), shape, call.connectivity).ret

\* find_connected_components(data) is that of the binarised grid
NonBinaryComponents ==
    ComponentsDone =>
        call.ret = find_connected_components(Binarised(data), shape,
                                             call.connectivity).ret

\* a solid voxel is marked iff a face neighbor is not a solid voxel
NonBinarySurface ==
    mesh.pc = "done" =>
        \A p \in Cells(mesh.shape) :
            mesh.surface[p] = Exposed(mesh.data, mesh.shape, p)

\* C14: on a grid with cell values other than 0 and 1, find_bubbles and
\* find_connected_components return what they return on the grid with those
\* cells set to 0, and the surface array marks a solid voxel iff one of its six
\* face neighbors is not a solid voxel (a cell other than 1 counting as such).
NonBinaryCountsAsEmpty ==
    NonBinaryBubbles /\ NonBinaryComponents /\ NonBinarySurface

----------------------------------------------------------------------------
\* C15: whatever unvisited solid voxel the outer loop of
\* find_connected_components starts from next, and whatever queued voxel the
\* flood fill takes next, the count returned is the one the row-major scan with
\* the first-in-first-out queue returns for the same grid and model.
ScanOrderIrrelevant ==
    ComponentsDone => call.ret = <<ComponentsOf(call.connectivity)>>

\* two components, the one of voxel 0 found last (idx is the last seed)
ScanOrderIrrelevantWitness ==
    /\ ComponentsDone
    /\ shape = <<2, 2, 2>>
    /\ Voxels(data, shape, 1) = {<<0, 0, 0>>, <<0, 1, 1>>, <<1, 1, 1>>}
    /\ call.connectivity = 6
    /\ call.idx = 0
    /\ call.ret = <<2>>

----------------------------------------------------------------------------
\* what the analysis of worker w returns when it runs on the grid by itself
Alone(w) ==
    IF JobOf(w).fn = "find_connected_components"
    THEN find_connected_components(data, shape, JobOf(w).connectivity).ret
    ELSE find_bubbles(data, shape, JobOf(w).connectivity).ret

\* C16: several analyses running on one shared grid, each with its own visited
\* array, queue and counter, interleaved in any way: each returns the count it
\* returns when run alone, and no step changes the grid.
SharedGridCallsIndependent ==
    /\ [](\A w \in DOMAIN workers :
              workers[w].pc = "done" => workers[w].ret = Alone(w))
    /\ [][data' = data /\ shape' = shape]_vars

\* one worker has returned 2 components while the two others are in mid-run
SharedGridCallsIndependentWitness ==
    /\ workers # <<>>
    /\ workers[1].pc = "done"
    /\ workers[1].ret = <<2>>
    /\ workers[2].pc = "bfs"
    /\ workers[3].pc = "bfs"

----------------------------------------------------------------------------
\* the offsets listed in table t
Listed(t) == {t[n] : n \in 1..Len(t)}

Neg(o) == <<-o[1], -o[2], -o[3]>>

\* the lists the classes are created with: the three lists of each class are
\* the 6 unit offsets, the 18 non-zero offsets of {-1,0,1}^3 with
\* |x|+|y|+|z| <= 2 and the 26 non-zero offsets, each offset once; each list
\* has the negation of each of its offsets; both classes hold equal lists
ClassTablesAsDefined ==
    /\ \A c \in {"components", "bubbles"} :
          LET List(m) == IF m = 6 THEN ClassTables[c].n6
                         ELSE IF m = 18 THEN ClassTables[c].n18
                         ELSE ClassTables[c].n26
          IN  /\ DOMAIN ClassTables[c] = {"n6", "n18", "n26"}
              /\ \A m \in {6, 18, 26} :
                    /\ Len(List(m)) = m
                    /\ Cardinality(Listed(List(m))) = m
                    /\ \A o \in Listed(List(m)) : Neg(o) \in Listed(List(m))
              /\ Listed(List(6)) = {o \in Cube3 : Norm1(o) = 1}
              /\ Listed(List(18)) = {o \in Cube3 : o # <<0, 0, 0>> /\ Norm1(o) <= 2}
              /\ Listed(List(26)) = Cube3 \ {<<0, 0, 0>>}
              /\ Listed(List(6)) \subseteq Listed(List(18))
              /\ Listed(List(18)) \subseteq Listed(List(26))
    /\ ClassTables.components = ClassTables.bubbles

\* C17: the neighbor lists of both classes are as defined (6 unit offsets, 18
\* offsets of norm <= 2, 26 non-zero offsets; 6 within 18 within 26; closed
\* under negation), the two classes hold equal lists, and no step of a call of
\* find_connected_components or find_bubbles changes them: in every state the
\* lists are the ones the classes were created with.
NeighborTablesFixed ==
    /\ [](tables = ClassTables /\ ClassTablesAsDefined)
    /\ [][tables' = tables]_vars

\* a call of find_bubbles under model 18 has run through its lists and returned
NeighborTablesFixedWitness ==
    /\ BubblesDone
    /\ call.connectivity = 18
    /\ call.ret = <<1>>
    /\ tables.bubbles.n18 = Bubbles_NEIGHBORS_18
    /\ tables.components.n18 = NEIGHBORS_18

----------------------------------------------------------------------------
\* the six face tuples the Deduplicated loop body forms for voxel p
Emitted(p) ==
    cube_faces(p, [n \in 1..8 |-> mesh.vertex_map[cube_vertices(p)[n]]])

\* the one of them lying on the square between p and its neighbor p + o
EmittedToward(p, o) ==
    LET f == Emitted(p)
    IN  f[CHOOSE n \in 1..6 : FaceCoords(mesh.vertices, f[n]) = SharedSquare(p, o)]

\* the tuples that p and p + o form for their shared square are one tuple,
\* counted twice and left out of faces_list
SharedFaceCancels(p, o) ==
    LET f == EmittedToward(p, o)
    IN  /\ f = EmittedToward(Plus(p, o), Neg(o))
        /\ mesh.face_count[f] = 2
        /\ \A n \in 1..Len(mesh.faces_list) : mesh.faces_list[n] # f

\* C18: in Deduplicated mode, for two face-adjacent surface voxels, along any
\* of the three axes and for either parity, the face tuples the two voxels
\* emit for the shared face are the same ordered 4-tuple, so its count reaches
\* 2 and the face is not in faces_list.
SharedFaceTuplesEqual ==
    DedupDone =>
        \A p \in Cells(mesh.shape) : \A o \in FaceOffsets :
            (mesh.surface[p] /\ InBounds(mesh.shape, Plus(p, o))
                /\ mesh.surface[Plus(p, o)]) => SharedFaceCancels(p, o)

----------------------------------------------------------------------------
RECURSIVE RawCountFrom(_, _)
\* how often the loop bodies emitted a face on the square sq, summed over the
\* keys of face_count from the n-th on
RawCountFrom(sq, n) ==
    IF n > Len(mesh.face_keys) THEN 0
    ELSE (IF FaceCoords(mesh.vertices, mesh.face_keys[n]) = sq
          THEN mesh.face_count[mesh.face_keys[n]] ELSE 0) + RawCountFrom(sq, n + 1)

\* C19: in Deduplicated mode, for every pair of face-adjacent solid voxels,
\* surface voxels or not, the face they share is emitted exactly twice into the
\* raw per-voxel faces, once by each of the two voxels.
SharedFaceEmittedTwice ==
    DedupDone =>
        \A p \in Cells(mesh.shape) : \A o \in FaceOffsets :
            (Solid(mesh.data, mesh.shape, p) /\ Solid(mesh.data, mesh.shape, Plus(p, o))) =>
                RawCountFrom(SharedSquare(p, o), 1) = 2

----------------------------------------------------------------------------
\* the call record c read as a flood fill: the value it fills, the position of
\* a key of visited or entry of the queue (a flat index in
\* find_connected_components, a position in find_bubbles), the keys marked,
\* the keys queued
FillValue(c) == IF c.fn = "find_connected_components" THEN 1 ELSE 0

KeyPos(c, x) == IF c.fn = "find_connected_components" THEN Unravel(shape, x) ELSE x

Marked(c) == {x \in DOMAIN c.visited : c.visited[x]}

Queued(c) == {c.queue[n] : n \in 1..Len(c.queue)}

Running(c) == c.pc \in {"scan", "bfs"}

\* the seeds the outer loop has been through when the call is in its scan
SeedsPassed(c) ==
    IF c.fn = "find_connected_components"
    THEN {p \in Cells(shape) : data[p] = 1 /\ NeighborIdx(shape, p) < c.idx}
    ELSE {c.seeds[n] : n \in 1..(c.idx - 1)}

\* what is left to do: unmarked voxels of the fill value, queue entries, and
\* the return to the outer loop
Measure(c) ==
    IF ~Running(c) THEN 0
    ELSE 3 * Cardinality({x \in DOMAIN c.visited :
                            ~c.visited[x] /\ data[KeyPos(c, x)] = FillValue(c)})
            + 2 * Len(c.queue) + (IF c.pc = "scan" THEN 1 ELSE 0)

\* every queued voxel is in bounds, has the fill value and is marked, and is
\* queued once; between two fills and at the end the marked voxels are
\* exactly the connected regions of the seeds the outer loop has been through
FillState(c) ==
    (Running(c) \/ c.pc = "done") =>
        /\ \A n \in 1..Len(c.queue) :
              /\ InBounds(shape, KeyPos(c, c.queue[n]))
              /\ data[KeyPos(c, c.queue[n])] = FillValue(c)
              /\ c.visited[c.queue[n]]
              /\ \A k \in 1..(n - 1) : c.queue[k] # c.queue[n]
        /\ c.pc \in {"scan", "done"} =>
              {KeyPos(c, x) : x \in Marked(c)} =
                  Region(Voxels(data, shape, FillValue(c)),
                         ModelOffsets(c.connectivity), SeedsPassed(c))

\* a step of a running call: the voxels it queues are the voxels it marks,
\* none of them was marked before, no mark is taken back, and the measure
\* of what is left stays non-negative and goes down
FillStep(c, d) ==
    Running(c) =>
        LET Mc == Marked(c)
            Md == Marked(d)
        IN  /\ Mc \subseteq Md
            /\ Queued(d) \ Queued(c) = Md \ Mc
            /\ Measure(d) >= 0
            /\ Measure(d) < Measure(c)

\* a running call meets the guard of StepComponents or of StepBubbles, and
\* inside bfs() there is an element for popleft() to take
CanStep(c) ==
    Running(c) =>
        /\ c.fn \in {"find_connected_components", "find_bubbles"}
        /\ c.pc = "bfs" => c.queue # <<>>

\* C20: find_connected_components and find_bubbles terminate on every grid
\* and valid model: a voxel is marked visited when it is queued, no voxel is
\* queued more than once in a call, every queued voxel is in bounds and has
\* the value being filled (1 for components, 0 for bubbles), a fill that has
\* ended has marked exactly the seed's connected region, a running call can
\* always take its next step, and every step lowers a non-negative measure.
FloodFillTerminates ==
    /\ [](FillState(call) /\ CanStep(call))
    /\ [][FillStep(call, call')]_vars

\* a fill of find_connected_components has ended with 4 of the 8 voxels
\* marked, 1 component counted and another solid voxel still to be found
FloodFillTerminatesWitness ==
    /\ call.fn = "find_connected_components"
    /\ call.pc = "scan"
    /\ shape = <<2, 2, 2>>
    /\ call.count = 1
    /\ Cardinality(Marked(call)) = 4
    /\ CCSeedsFrom(data, shape, call) # {}

----------------------------------------------------------------------------
\* index idx of a grid of shape sh decodes to an in-bounds position that
\* encodes back to idx and is the position data.flat[idx] reads
IndexRoundTrip(sh, idx) ==
    /\ InBounds(sh, Decode(sh, idx))
    /\ NeighborIdx(sh, Decode(sh, idx)) = idx
    /\ Decode(sh, idx) = Unravel(sh, idx)

\* position p encodes to an index of the visited array that decodes back to p
PositionRoundTrip(sh, p) ==
    /\ NeighborIdx(sh, p) \in 0..(Total(sh) - 1)
    /\ Decode(sh, NeighborIdx(sh, p)) = p

\* C21: in find_connected_components, for every grid shape (X, Y, Z), cubic
\* or not, decoding idx and encoding the result gives idx back for every idx
\* in [0, X*Y*Z), the encoding maps the positions of the grid one-to-one onto
\* the indices of visited, every in-bounds neighbor of the voxel being
\* expanded gets an index of visited, and visited[idx], data[x, y, z] and
\* data.flat[idx] are about the same voxel.
FlatIndexBijection ==
    (call.fn = "find_connected_components" /\ call.pc \in {"scan", "bfs", "done"}) =>
        /\ DOMAIN call.visited = 0..(Total(shape) - 1)
        /\ call.pc = "scan" =>
              /\ \A idx \in 0..(Total(shape) - 1) : IndexRoundTrip(shape, idx)
              /\ \A p \in Cells(shape) : PositionRoundTrip(shape, p)
              /\ {NeighborIdx(shape, p) : p \in Cells(shape)} = 0..(Total(shape) - 1)
        /\ call.pc = "bfs" =>
              LET current_idx == Head(call.queue)
                  cur == Decode(shape, current_idx)
              IN  /\ IndexRoundTrip(shape, current_idx)
                  /\ data[cur] = Flat(data, shape, current_idx)
                  /\ \A o \in Listed(SelectNeighbors(call.connectivity)) :
                        InBounds(shape, Plus(cur, o)) =>
                            /\ PositionRoundTrip(shape, Plus(cur, o))
                            /\ Flat(data, shape, NeighborIdx(shape, Plus(cur, o))) =
                                   data[Plus(cur, o)]
        /\ \A idx \in DOMAIN call.visited :
              call.visited[idx] => data[Decode(shape, idx)] = 1

\* the last voxel of a 1 x 2 x 3 grid is being expanded: index 5 is (0, 1, 2)
FlatIndexBijectionWitness ==
    /\ call.fn = "find_connected_components"
    /\ call.pc = "bfs"
    /\ shape = <<1, 2, 3>>
    /\ Head(call.queue) = 5
    /\ Decode(shape, Head(call.queue)) = <<0, 1, 2>>
    /\ \A idx \in 0..5 : call.visited[idx]

====
